---- MODULE Spec2Model ----
(***************************************************************************)
(* Block-parallel sieve of Eratosthenes, sieve_direct_block of             *)
(* src/sieve_direct_fun.cpp: a sequential base sieve, then one             *)
(* std::async task per block, each running                                 *)
(*   gen -> gen_range -> range_sieve -> sieve_to_primes_part -> output_body*)
(* and a wait loop over the futures.                                       *)
(*                                                                         *)
(* The helpers of sieve.hpp and sieve_fun.hpp (sieve_seq, sieve_to_primes, *)
(* input_body, gen_range, range_sieve, sieve_to_primes_part, output_body)  *)
(* are not part of src/; they are modelled from sections 4.1-4.5 of the    *)
(* specification.                                                          *)
(*                                                                         *)
(* Vectors are functions over 0..size-1 (bitmaps, prime_list) or sequences *)
(* (lists of primes).  A std::shared_ptr is a sequence of length 0 (null)  *)
(* or 1 (pointing to its value).  A bitmap cell of the instantiation       *)
(* bool_t = bool is a truth value, one of bool_t = char is a byte: storing *)
(* true gives 1, storing false gives 0, and a byte is tested against 0.    *)
(***************************************************************************)
EXTENDS Integers, Sequences, FiniteSets, TLC

\* ------------------------------------------------------------------ bounds
MaxN == 16
MaxBlockSize == 17
MaxTasks == 3
MaxQuot == 1

VARIABLES n, block_size, bool_t, pc, sqrt_n, first_sieve, base_primes, prime_list,
          gen, i, tasks

vars == <<n, block_size, bool_t, pc, sqrt_n, first_sieve, base_primes, prime_list,
          gen, i, tasks>>

\* ------------------------------------------------------------- primitives
Null == <<>>

make_shared(v) == <<v>>

Min(x, y) == IF x <= y THEN x ELSE y

\* static_cast<size_t>(std::ceil(std::sqrt(n)))
CeilSqrtPlusOne(k) == (CHOOSE m \in 0..k : m * m <= k /\ (m + 1) * (m + 1) > k) + 1

CeilSqrt(k) == CHOOSE m \in 0..k : m * m >= k /\ \A l \in 0..(m - 1) : l * l < k

\* --------------------------------------------------- cells of a bitmap
\* the value a cell of std::vector<bool_t> holds after the assignment of v
Cell(bt, v) == IF bt = "bool" THEN v ELSE (IF v THEN 1 ELSE 0)

\* if (sieve[k]) with the byte convention reversed
IsSetFlipped(bt, c) == IF bt = "bool" THEN c ELSE c = 0

\* if (sieve[k]): the cell converted to bool
IsSet(bt, c) == IF bt = "bool" THEN c ELSE c # 0

\* ------------------------------------------------------------ 4.1 BaseSieve
RECURSIVE MarkMultiples(_, _, _, _, _)
MarkMultiples(bt, s, j, p, last) ==
    IF j > last THEN s
    ELSE MarkMultiples(bt, [s EXCEPT ![j] = Cell(bt, FALSE)], j + p, p, last)

RECURSIVE SieveLoop(_, _, _, _)
SieveLoop(bt, s, p, m) ==
    IF p * p > m THEN s
    ELSE SieveLoop(bt, IF IsSet(bt, s[p]) THEN MarkMultiples(bt, s, p * p, p, m) ELSE s,
                   p + 1, m)

sieve_seq(bt, m) == SieveLoop(bt, [k \in 0..m |-> Cell(bt, TRUE)], 2, m)

RECURSIVE ScanFrom(_, _, _, _, _)
ScanFrom(bt, s, k, size, offset) ==
    IF k >= size THEN <<>>
    ELSE (IF IsSet(bt, s[k]) THEN <<offset + k>> ELSE <<>>)
             \o ScanFrom(bt, s, k + 1, size, offset)

sieve_to_primes(bt, s) == ScanFrom(bt, s, 2, Cardinality(DOMAIN s), 0)

\* ----------------------------------------------------- 4.2 RangeGenerator
gen_range(p, bs, sq, nn) ==
    LET lo == sq + 1 + p * bs
    IN  [slot |-> p + 1, lo |-> lo, hi |-> Min(lo + bs, nn + 1)]

\* ---------------------------------------------------------- 4.3 RangeSieve
RECURSIVE MarkRange(_, _, _, _, _)
MarkRange(bt, s, j, p, size) ==
    IF j >= size THEN s
    ELSE MarkRange(bt, [s EXCEPT ![j] = Cell(bt, FALSE)], j + p, p, size)

RECURSIVE SieveWith(_, _, _, _, _, _)
SieveWith(bt, s, primes, k, lo, size) ==
    IF k > Len(primes) THEN s
    ELSE LET p == primes[k]
             first == ((lo + p - 1) \div p) * p
         IN  SieveWith(bt, MarkRange(bt, s, first - lo, p, size), primes, k + 1, lo, size)

\* the bitmap length taken as the distance between the two bounds
range_sieve_abs(bt, b, primes) ==
    LET size == IF b.hi > b.lo THEN b.hi - b.lo ELSE b.lo - b.hi
    IN  [slot |-> b.slot, lo |-> b.lo,
         sieve |-> SieveWith(bt, [k \in 0..(size - 1) |-> Cell(bt, TRUE)],
                             primes, 1, b.lo, size)]

range_sieve(bt, b, primes) ==
    LET size == IF b.hi > b.lo THEN b.hi - b.lo ELSE 0
    IN  [slot |-> b.slot, lo |-> b.lo,
         sieve |-> SieveWith(bt, [k \in 0..(size - 1) |-> Cell(bt, TRUE)],
                             primes, 1, b.lo, size)]

\* ------------------------------------------------------ 4.4 PrimeExtractor
sieve_to_primes_part(bt, c) ==
    [slot |-> c.slot,
     primes |-> ScanFrom(bt, c.sieve, 0, Cardinality(DOMAIN c.sieve), c.lo)]

\* ---------------------------------------------------- 4.5 ResultAggregator
output_body(d, list) == [list EXCEPT ![d.slot] = make_shared(d.primes)]

\* ------------------------------------------------------------ input_body
\* gen(): the shared counter is read and advanced in one atomic step
input_body(p) == [value |-> p, p |-> p + 1]

\* ------------------------------------------------- sizes of the scheduler
\* n / block_size; a division by zero is undefined: any quotient (the trap
\* is the action DivTrap)
Quot(nn, bs) == IF bs = 0 THEN 0..MaxQuot ELSE {nn \div bs}

PrimeListSizeShort(q) == q + 1

PrimeListSizeExtra(q) == q + 3

PrimeListSize(q) == q + 2

LaunchBoundLong(q) == q + 2

LaunchBound(q) == q + 1

WaitBoundLong(q) == q + 2

WaitBoundShort(q) == q

WaitBound(q) == q + 1

\* ------------------------------------------------------------------ state
NoRange == [slot |-> 0, lo |-> 0, hi |-> 0]
NoSieve == [slot |-> 0, lo |-> 0, sieve |-> <<>>]
NoPrimes == [slot |-> 0, primes |-> <<>>]

NewTask == [pc |-> "gen", a |-> 0, b |-> NoRange, c |-> NoSieve, d |-> NoPrimes]

Ready(t) == tasks[t].pc \in {"done", "failed"}

Start(bs) ==
    /\ n \in 0..MaxN
    /\ block_size \in bs
    /\ bool_t \in {"bool", "char"}
    /\ pc = "sqrt_n"
    /\ sqrt_n = 0
    /\ first_sieve = <<>>
    /\ base_primes = <<>>
    /\ prime_list = <<>>
    /\ gen = 0
    /\ i = 0
    /\ tasks = <<>>

Init ==
    /\ Start(1..MaxBlockSize)
    /\ n \div block_size + 1 <= MaxTasks

\* ------------------------------------------------------ the calling thread
ComputeSqrt ==
    /\ pc = "sqrt_n"
    /\ sqrt_n' = CeilSqrt(n)
    /\ pc' = "first_sieve"
    /\ UNCHANGED <<n, block_size, bool_t, first_sieve, base_primes, prime_list, gen, i, tasks>>

SieveSeq ==
    /\ pc = "first_sieve"
    /\ first_sieve' = sieve_seq(bool_t, sqrt_n)
    /\ pc' = "base_primes"
    /\ UNCHANGED <<n, block_size, bool_t, sqrt_n, base_primes, prime_list, gen, i, tasks>>

SieveToPrimes ==
    /\ pc = "base_primes"
    /\ base_primes' = sieve_to_primes(bool_t, first_sieve)
    /\ pc' = "prime_list"
    /\ UNCHANGED <<n, block_size, bool_t, sqrt_n, first_sieve, prime_list, gen, i, tasks>>

AllocPrimeList ==
    /\ pc = "prime_list"
    /\ \E q \in Quot(n, block_size) :
          prime_list' = [k \in 0..(PrimeListSize(q) - 1) |-> Null]
    /\ pc' = "slot0"
    /\ UNCHANGED <<n, block_size, bool_t, sqrt_n, first_sieve, base_primes, gen, i, tasks>>

\* base_primes moved into slot 0 and left empty
StoreBaseMove ==
    /\ pc = "slot0"
    /\ prime_list' = [prime_list EXCEPT ![0] = make_shared(base_primes)]
    /\ base_primes' = <<>>
    /\ gen' = 0
    /\ i' = 0
    /\ pc' = "launch"
    /\ UNCHANGED <<n, block_size, bool_t, sqrt_n, first_sieve, tasks>>

StoreBaseEmpty ==
    /\ pc = "slot0"
    /\ prime_list' = [prime_list EXCEPT ![0] = make_shared(<<>>)]
    /\ gen' = 0
    /\ i' = 0
    /\ pc' = "launch"
    /\ UNCHANGED <<n, block_size, bool_t, sqrt_n, first_sieve, base_primes, tasks>>

StoreBase ==
    /\ pc = "slot0"
    /\ prime_list' = [prime_list EXCEPT ![0] = make_shared(base_primes)]
    /\ gen' = 0
    /\ i' = 0
    /\ pc' = "launch"
    /\ UNCHANGED <<n, block_size, bool_t, sqrt_n, first_sieve, base_primes, tasks>>

LaunchEarly ==
    /\ pc \in {"base_primes", "launch"}
    /\ \E q \in Quot(n, block_size) : i < LaunchBound(q)
    /\ tasks' = Append(tasks, NewTask)
    /\ i' = i + 1
    /\ UNCHANGED <<n, block_size, bool_t, pc, sqrt_n, first_sieve, base_primes, prime_list, gen>>

Launch ==
    /\ pc = "launch"
    /\ \E q \in Quot(n, block_size) : i < LaunchBound(q)
    /\ tasks' = Append(tasks, NewTask)
    /\ i' = i + 1
    /\ UNCHANGED <<n, block_size, bool_t, pc, sqrt_n, first_sieve, base_primes, prime_list, gen>>

LaunchDone ==
    /\ pc = "launch"
    /\ \E q \in Quot(n, block_size) : ~(i < LaunchBound(q))
    /\ i' = 0
    /\ pc' = "wait"
    /\ UNCHANGED <<n, block_size, bool_t, sqrt_n, first_sieve, base_primes, prime_list, gen, tasks>>

Wait ==
    /\ pc = "wait"
    /\ \E q \in Quot(n, block_size) : i < WaitBound(q)
    /\ i + 1 \in DOMAIN tasks
    /\ Ready(i + 1)
    /\ i' = i + 1
    /\ UNCHANGED <<n, block_size, bool_t, pc, sqrt_n, first_sieve, base_primes, prime_list, gen, tasks>>

Return ==
    /\ pc = "wait"
    /\ \E q \in Quot(n, block_size) : ~(i < WaitBound(q))
    /\ pc' = "returned"
    /\ UNCHANGED <<n, block_size, bool_t, sqrt_n, first_sieve, base_primes, prime_list, gen, i, tasks>>

\* ---------------------------------------------------------- the block tasks
TaskGenByValue(t) ==
    /\ tasks[t].pc = "gen"
    /\ tasks' = [tasks EXCEPT ![t].a = 0, ![t].pc = "gen_range"]
    /\ UNCHANGED <<n, block_size, bool_t, pc, sqrt_n, first_sieve, base_primes, prime_list, gen, i>>

TaskGen(t) ==
    /\ tasks[t].pc = "gen"
    /\ tasks' = [tasks EXCEPT ![t].a = input_body(gen).value, ![t].pc = "gen_range"]
    /\ gen' = input_body(gen).p
    /\ UNCHANGED <<n, block_size, bool_t, pc, sqrt_n, first_sieve, base_primes, prime_list, i>>

TaskGenRangeSwapped(t) ==
    /\ tasks[t].pc = "gen_range"
    /\ tasks' = [tasks EXCEPT ![t].b = gen_range(tasks[t].a, sqrt_n, block_size, n),
                              ![t].pc = "range_sieve"]
    /\ UNCHANGED <<n, block_size, bool_t, pc, sqrt_n, first_sieve, base_primes, prime_list, gen, i>>

TaskGenRange(t) ==
    /\ tasks[t].pc = "gen_range"
    /\ tasks' = [tasks EXCEPT ![t].b = gen_range(tasks[t].a, block_size, sqrt_n, n),
                              ![t].pc = "range_sieve"]
    /\ UNCHANGED <<n, block_size, bool_t, pc, sqrt_n, first_sieve, base_primes, prime_list, gen, i>>

TaskRangeSieve(t) ==
    /\ tasks[t].pc = "range_sieve"
    /\ tasks' = [tasks EXCEPT ![t].c = range_sieve(bool_t, tasks[t].b, base_primes),
                              ![t].pc = "sieve_to_primes_part"]
    /\ UNCHANGED <<n, block_size, bool_t, pc, sqrt_n, first_sieve, base_primes, prime_list, gen, i>>

TaskSieveToPrimesPart(t) ==
    /\ tasks[t].pc = "sieve_to_primes_part"
    /\ tasks' = [tasks EXCEPT ![t].d = sieve_to_primes_part(bool_t, tasks[t].c),
                              ![t].pc = "output_body"]
    /\ UNCHANGED <<n, block_size, bool_t, pc, sqrt_n, first_sieve, base_primes, prime_list, gen, i>>

\* the task as a worker loop that goes back for another index
TaskOutputBodyLoop(t) ==
    /\ tasks[t].pc = "output_body"
    /\ tasks[t].d.slot \in DOMAIN prime_list
    /\ prime_list' = output_body(tasks[t].d, prime_list)
    /\ tasks' = [tasks EXCEPT ![t].pc = "gen"]
    /\ UNCHANGED <<n, block_size, bool_t, pc, sqrt_n, first_sieve, base_primes, gen, i>>

\* the task passing the block index where the slot index is expected
TaskOutputBodyShifted(t) ==
    /\ tasks[t].pc = "output_body"
    /\ tasks[t].d.slot - 1 \in DOMAIN prime_list
    /\ prime_list' = output_body([tasks[t].d EXCEPT !.slot = @ - 1], prime_list)
    /\ tasks' = [tasks EXCEPT ![t].pc = "done"]
    /\ UNCHANGED <<n, block_size, bool_t, pc, sqrt_n, first_sieve, base_primes, gen, i>>

TaskOutputBody(t) ==
    /\ tasks[t].pc = "output_body"
    /\ tasks[t].d.slot \in DOMAIN prime_list
    /\ prime_list' = output_body(tasks[t].d, prime_list)
    /\ tasks' = [tasks EXCEPT ![t].pc = "done"]
    /\ UNCHANGED <<n, block_size, bool_t, pc, sqrt_n, first_sieve, base_primes, gen, i>>

TaskStep(t) ==
    \/ TaskGen(t)
    \/ TaskGenRange(t)
    \/ TaskRangeSieve(t)
    \/ TaskSieveToPrimesPart(t)
    \/ TaskOutputBody(t)

Next ==
    \/ ComputeSqrt
    \/ SieveSeq
    \/ SieveToPrimes
    \/ AllocPrimeList
    \/ StoreBase
    \/ Launch
    \/ LaunchDone
    \/ Wait
    \/ Return
    \/ \E t \in DOMAIN tasks : TaskStep(t)

Spec == Init /\ [][Next]_vars

\* ----------------------------------------------- failure of a block task
\* an allocation of a bitmap or of a list of primes fails: the exception is
\* stored in the task's future, which becomes ready
TaskThrow(t) ==
    /\ tasks[t].pc \in {"range_sieve", "sieve_to_primes_part"}
    /\ tasks' = [tasks EXCEPT ![t].pc = "failed"]
    /\ UNCHANGED <<n, block_size, bool_t, pc, sqrt_n, first_sieve, base_primes, prime_list, gen, i>>

NextFail ==
    \/ Next
    \/ \E t \in DOMAIN tasks : TaskThrow(t)

SpecFail == Init /\ [][NextFail]_vars

\* ------------------------------------------------------- block_size = 0
\* n / block_size is undefined for block_size = 0: the division traps, or
\* it yields some quotient (Quot) and the run goes on; an index the
\* quotients let run past the end of prime_list or tasks is undefined too
InitAny ==
    /\ Start(0..MaxBlockSize)
    /\ IF block_size = 0 THEN TRUE ELSE n \div block_size + 1 <= MaxTasks

DivTrap ==
    /\ block_size = 0
    /\ pc \in {"prime_list", "launch", "wait"}
    /\ pc' = "trapped"
    /\ UNCHANGED <<n, block_size, bool_t, sqrt_n, first_sieve, base_primes, prime_list, gen, i, tasks>>

WaitOutOfRange ==
    /\ pc = "wait"
    /\ \E q \in Quot(n, block_size) : i < WaitBound(q)
    /\ i + 1 \notin DOMAIN tasks
    /\ \/ i' = i + 1 /\ pc' = pc
       \/ i' = i /\ pc' = "trapped"
    /\ UNCHANGED <<n, block_size, bool_t, sqrt_n, first_sieve, base_primes, prime_list, gen, tasks>>

TaskOutputOutOfRange(t) ==
    /\ pc # "trapped"
    /\ tasks[t].pc = "output_body"
    /\ tasks[t].d.slot \notin DOMAIN prime_list
    /\ tasks' = [tasks EXCEPT ![t].pc = "done"]
    /\ pc' \in {pc, "trapped"}
    /\ UNCHANGED <<n, block_size, bool_t, sqrt_n, first_sieve, base_primes, prime_list, gen, i>>

NextAny ==
    \/ pc # "trapped" /\ Next
    \/ DivTrap
    \/ WaitOutOfRange
    \/ \E t \in DOMAIN tasks : TaskOutputOutOfRange(t)

SpecAny == InitAny /\ [][NextAny]_vars

\* ------------------------------------------------- reference definitions
IsPrime(v) == v >= 2 /\ \A d \in 2..(v - 1) : v % d # 0

PrimesUpTo(nn) == {v \in 2..nn : IsPrime(v)}

Range(s) == {s[k] : k \in DOMAIN s}

StrictlyIncreasing(s) == \A k \in 1..(Len(s) - 1) : s[k] < s[k + 1]

\* slot_0 ++ slot_1 ++ ... ++ slot_last; a null slot contributes nothing
RECURSIVE ConcatFrom(_, _)
ConcatFrom(list, k) ==
    IF k \notin DOMAIN list THEN <<>>
    ELSE (IF list[k] = Null THEN <<>> ELSE list[k][1]) \o ConcatFrom(list, k + 1)

Concat(list) == ConcatFrom(list, 0)

AllSet(list) == \A k \in DOMAIN list : list[k] # Null

\* the chain of the task for block index p, as one call
Pipeline(bt, p, bs, nn) ==
    sieve_to_primes_part(bt,
        range_sieve(bt, gen_range(p, bs, CeilSqrt(nn), nn),
                    sieve_to_primes(bt, sieve_seq(bt, CeilSqrt(nn)))))

\* the blocks 0, 1, ... run one after the other in index order
SequentialRun(bt, nn, bs) ==
    LET q == nn \div bs
        run(list, p) == output_body(Pipeline(bt, p, bs, nn), list)
        RECURSIVE runAll(_, _)
        runAll(list, p) == IF p < LaunchBound(q) THEN runAll(run(list, p), p + 1) ELSE list
    IN  runAll([[k \in 0..(PrimeListSize(q) - 1) |-> Null]
                   EXCEPT ![0] = make_shared(sieve_to_primes(bt, sieve_seq(bt, CeilSqrt(nn))))], 0)

Returned == pc = "returned"

\* ------------------------------------------------------------------ claims

\* C1: for n >= 2, once sieve_direct_block has returned, every slot is set
\* and the concatenation of the slots in index order is strictly increasing
\* and its values are exactly the primes p with 2 <= p <= n.
C1_PrimesUpToN ==
    (Returned /\ n >= 2) =>
        /\ AllSet(prime_list)
        /\ StrictlyIncreasing(Concat(prime_list))
        /\ Range(Concat(prime_list)) = PrimesUpTo(n)

C1_Witness ==
    /\ Returned
    /\ n = 16
    /\ Len(tasks) = 3
    /\ Concat(prime_list) = <<2, 3, 5, 7, 11, 13>>
    /\ prime_list[2] # make_shared(<<>>)

\* C2: whatever the order in which the tasks draw their indices and run
\* their stages, the returned slots are those of running the blocks one
\* after the other in index order.
C2_SameAsSequential ==
    Returned => prime_list = SequentialRun(bool_t, n, block_size)

C2_Witness ==
    /\ Returned
    /\ \E t1, t2 \in DOMAIN tasks : t1 < t2 /\ tasks[t1].a > tasks[t2].a
    /\ prime_list = SequentialRun(bool_t, n, block_size)

\* C3: no two tasks hold the same index drawn from gen, a task about to
\* write finds its slot (never slot 0) still unwritten, and a slot that has
\* been written never changes afterwards.
Drawn(t) == tasks[t].pc # "gen"

DistinctIndices ==
    \A t1, t2 \in DOMAIN tasks :
        (t1 # t2 /\ Drawn(t1) /\ Drawn(t2)) => tasks[t1].a # tasks[t2].a

SlotUnwrittenBeforeWrite ==
    \A t \in DOMAIN tasks :
        tasks[t].pc = "output_body" =>
            /\ tasks[t].d.slot = tasks[t].a + 1
            /\ tasks[t].d.slot \in DOMAIN prime_list
            /\ prime_list[tasks[t].d.slot] = Null

WrittenOnce ==
    \A k \in DOMAIN prime_list :
        prime_list[k] # Null => (k \in DOMAIN prime_list' /\ prime_list'[k] = prime_list[k])

C3_SlotWrittenOnce ==
    /\ [](DistinctIndices /\ SlotUnwrittenBeforeWrite)
    /\ [][WrittenOnce]_vars

C3_Witness ==
    /\ \E t1, t2 \in DOMAIN tasks :
          /\ t1 # t2
          /\ tasks[t1].pc = "done"
          /\ tasks[t2].pc = "done"
          /\ prime_list[tasks[t1].a + 1] # Null
          /\ prime_list[tasks[t2].a + 1] # Null
    /\ \E t3 \in DOMAIN tasks : tasks[t3].pc = "output_body"

\* C4: the caller holds prime_list only when every task of the launch loop
\* has been launched and has completed.
C4_ReturnAfterAllTasks ==
    Returned =>
        /\ \E q \in Quot(n, block_size) : Len(tasks) = q + 1
        /\ \A t \in DOMAIN tasks : tasks[t].pc = "done"

C4_Witness ==
    /\ Returned
    /\ Len(tasks) = 3
    /\ \A t \in DOMAIN tasks : tasks[t].pc = "done"

\* C5: after the join no slot of prime_list is null.
C5_AllSlotsPopulated ==
    Returned => \A k \in DOMAIN prime_list : Len(prime_list[k]) = 1

C5_Witness ==
    /\ Returned
    /\ Cardinality(DOMAIN prime_list) = 4
    /\ prime_list[3] = make_shared(<<>>)
    /\ prime_list[1] # make_shared(<<>>)

\* C6: when a block task has thrown the call does not return a result; a
\* returned result is complete.
C6_NoPartialResult ==
    Returned =>
        /\ \A t \in DOMAIN tasks : tasks[t].pc # "failed"
        /\ AllSet(prime_list)

\* C7: with block_size = 0 the call is rejected before any work: nothing
\* is divided by block_size, prime_list is not allocated, no task launched.
C7_ZeroBlockSizeRejected ==
    block_size = 0 =>
        /\ pc \in {"sqrt_n", "first_sieve", "base_primes", "prime_list"}
        /\ prime_list = <<>>
        /\ tasks = <<>>

\* C8: for n = 0 and n = 1 the call returns, at least one task was launched
\* and has completed, and no slot holds any value.
C8_EmptyBelowTwo ==
    (Returned /\ n <= 1) =>
        /\ Len(tasks) >= 1
        /\ \A t \in DOMAIN tasks : tasks[t].pc = "done"
        /\ \A k \in DOMAIN prime_list : prime_list[k] = make_shared(<<>>)

C8_Witness ==
    /\ Returned
    /\ n = 1
    /\ block_size = 1
    /\ Len(tasks) = 2
    /\ Concat(prime_list) = <<>>

\* C9: the concatenation of the returned slots is the one every other
\* block size b2 >= 1 yields for the same n.
C9_BlockSizeIndependent ==
    Returned =>
        \A b2 \in 1..MaxBlockSize :
            Concat(prime_list) = Concat(SequentialRun(bool_t, n, b2))

C9_Witness ==
    /\ Returned
    /\ n = 10
    /\ block_size = 4
    /\ prime_list # SequentialRun(bool_t, n, 1)
    /\ Concat(prime_list) = Concat(SequentialRun(bool_t, n, 1))

\* C10: a task exists only when the base sieve has run to completion and
\* base_primes and slot 0 are constructed.
C10_BaseBeforeTasks ==
    tasks # <<>> =>
        /\ pc \in {"launch", "wait", "returned"}
        /\ first_sieve = sieve_seq(bool_t, sqrt_n)
        /\ base_primes = sieve_to_primes(bool_t, first_sieve)
        /\ 0 \in DOMAIN prime_list
        /\ prime_list[0] = make_shared(base_primes)

C10_Witness ==
    /\ pc = "launch"
    /\ base_primes = <<2, 3>>
    /\ \E t \in DOMAIN tasks : tasks[t].pc = "range_sieve"

\* C11: the slots returned by the instantiation in hand are, slot by slot
\* and element by element, those of the other instantiation (bool for
\* char, char for bool) on the same n and block_size.
OtherType == IF bool_t = "bool" THEN "char" ELSE "bool"

CeilDiv(x, y) == (x + y - 1) \div y

C12_NumBlocksIsCeil ==
    (Returned /\ n >= 2) =>
        /\ Len(tasks) = CeilDiv(n - sqrt_n, block_size)
        /\ Cardinality(DOMAIN prime_list) = CeilDiv(n - sqrt_n, block_size) + 1

\* C12 (amended): once the launch loop is left, n / block_size + 1 tasks
\* have been launched, which is at least ceil((n - sqrtN) / blockSize), and
\* prime_list has n / block_size + 2 slots: slot 0 and one per task.
C12_NumTasksIsQuotientPlusOne ==
    pc \in {"wait", "returned"} =>
        /\ Len(tasks) = n \div block_size + 1
        /\ Len(tasks) >= CeilDiv(n - sqrt_n, block_size)
        /\ DOMAIN prime_list = 0..Len(tasks)

C12_Witness ==
    /\ Returned
    /\ n = 10
    /\ block_size = 4
    /\ Len(tasks) = 3
    /\ CeilDiv(n - sqrt_n, block_size) = 2
    /\ Cardinality(DOMAIN prime_list) = 4

\* C13: a task whose range starts above n has hi <= lo, builds a bitmap of
\* length 0, extracts no prime, stores an empty list in its slot and does
\* not fail.
Past(t, stages) == tasks[t].pc \in stages

HasRange(t) == tasks[t].pc \notin {"gen", "gen_range"}

BlockValues(t) == tasks[t].b.lo .. (tasks[t].b.hi - 1)

C14_BlocksPartition ==
    /\ \A t \in DOMAIN tasks :
          HasRange(t) =>
              /\ tasks[t].b.lo = sqrt_n + 1 + tasks[t].a * block_size
              /\ tasks[t].b.hi = Min(tasks[t].b.lo + block_size, n + 1)
              /\ BlockValues(t) \subseteq (sqrt_n + 1)..n
    /\ \A t1, t2 \in DOMAIN tasks :
          (t1 # t2 /\ HasRange(t1) /\ HasRange(t2)) =>
              /\ BlockValues(t1) \cap BlockValues(t2) = {}
              /\ (tasks[t2].a = tasks[t1].a + 1
                     /\ BlockValues(t1) # {} /\ BlockValues(t2) # {}) =>
                     tasks[t1].b.hi = tasks[t2].b.lo
    /\ (pc \in {"wait", "returned"} /\ \A t \in DOMAIN tasks : HasRange(t)) =>
          (2..sqrt_n) \cup UNION {BlockValues(t) : t \in DOMAIN tasks} = 2..n

C14_Witness ==
    /\ pc = "wait"
    /\ n = 16
    /\ block_size = 6
    /\ \A t \in DOMAIN tasks : HasRange(t)
    /\ \E t1, t2 \in DOMAIN tasks :
          /\ BlockValues(t1) = 5..10
          /\ BlockValues(t2) = 11..16

\* C15: the primes a task has extracted are, in strictly increasing order,
\* exactly the values of its range [lo, hi) that pass trial division; the
\* range lies above sqrt(n).
C15_BlockPrimesByTrialDivision ==
    \A t \in DOMAIN tasks :
        Past(t, {"output_body", "done"}) =>
            /\ tasks[t].b.lo * tasks[t].b.lo > n
            /\ StrictlyIncreasing(tasks[t].d.primes)
            /\ Range(tasks[t].d.primes) = {v \in BlockValues(t) : IsPrime(v)}

C15_Witness ==
    \E t \in DOMAIN tasks :
        /\ tasks[t].pc = "output_body"
        /\ n = 16
        /\ block_size = 6
        /\ BlockValues(t) = 11..16
        /\ tasks[t].d.primes = <<11, 13>>

\* C16 (as stated): base_primes is strictly increasing and consists of
\* exactly the primes p with p <= sqrt(n), none exceeding sqrt(n).
BaseDone == pc \notin {"sqrt_n", "first_sieve", "base_primes"}

C16_BasePrimesUpToSqrt ==
    BaseDone =>
        /\ StrictlyIncreasing(base_primes)
        /\ Range(base_primes) = {p \in 0..n : IsPrime(p) /\ p * p <= n}

\* C16 (amended): base_primes is strictly increasing and consists of
\* exactly the primes p with p <= ceil(sqrt(n)), that is (p - 1)^2 < n; it
\* holds every prime p <= sqrt(n) and is empty for n = 0 and n = 1.
C16_BasePrimesUpToCeilSqrt ==
    BaseDone =>
        /\ StrictlyIncreasing(base_primes)
        /\ Range(base_primes) = {p \in 0..(n + 2) : IsPrime(p) /\ (p - 1) * (p - 1) < n}
        /\ {p \in 0..n : IsPrime(p) /\ p * p <= n} \subseteq Range(base_primes)
        /\ n <= 1 => base_primes = <<>>

C16_Witness ==
    /\ BaseDone
    /\ n = 5
    /\ base_primes = <<2, 3>>
    /\ tasks = <<>>

\* C17: from the launch of the first task on, base_primes and slot 0 never
\* change, and the slot a task writes has an index of at least 1.
BaseUnchanged ==
    tasks # <<>> =>
        /\ base_primes' = base_primes
        /\ prime_list'[0] = prime_list[0]

TaskSlotsAboveZero ==
    \A t \in DOMAIN tasks : HasRange(t) => tasks[t].b.slot >= 1

C17_BaseReadOnly ==
    /\ [][BaseUnchanged]_vars
    /\ [](TaskSlotsAboveZero /\ (tasks # <<>> => prime_list[0] = make_shared(base_primes)))

C17_Witness ==
    /\ Returned
    /\ n = 16
    /\ base_primes = <<2, 3>>
    /\ prime_list[0] = make_shared(<<2, 3>>)
    /\ \E t \in DOMAIN tasks : tasks[t].b.slot = 1 /\ prime_list[1] # make_shared(<<>>)

\* ------------------------------------------------ fair scheduling
\* the calling thread and the thread of every std::launch::async task keep
\* running while they can take a step
MaxNLive == 4
MaxBlockSizeLive == 4

InitLive ==
    /\ Init
    /\ n <= MaxNLive
    /\ block_size <= MaxBlockSizeLive

MainStep ==
    \/ ComputeSqrt
    \/ SieveSeq
    \/ SieveToPrimes
    \/ AllocPrimeList
    \/ StoreBase
    \/ Launch
    \/ LaunchDone
    \/ Wait
    \/ Return

TaskRun(t) == t \in DOMAIN tasks /\ TaskStep(t)

Fairness ==
    /\ WF_vars(MainStep)
    /\ \A t \in 1..(MaxTasks + 1) : WF_vars(TaskRun(t))

SpecLive == InitLive /\ [][Next]_vars /\ Fairness

\* C18: every step leaves each task where it is or moves it to the next of
\* gen, gen_range, range_sieve, sieve_to_primes_part, output_body, done, and
\* never moves the caller back from AllLaunched or AllJoined; a slot is
\* written only by a task that is done, with the primes extracted from its
\* own bitmap; AllLaunched holds only with all tasks launched and AllJoined
\* only with all of them done.
TaskRank(t) ==
    CASE t.pc = "gen" -> 0
      [] t.pc = "gen_range" -> 1
      [] t.pc = "range_sieve" -> 2
      [] t.pc = "sieve_to_primes_part" -> 3
      [] t.pc = "output_body" -> 4
      [] t.pc = "done" -> 5
      [] OTHER -> 6

GlobalRank(p) ==
    CASE p = "wait" -> 1
      [] p = "returned" -> 2
      [] OTHER -> 0

ForwardOnly ==
    /\ GlobalRank(pc') >= GlobalRank(pc)
    /\ \A t \in DOMAIN tasks :
          /\ t \in DOMAIN tasks'
          /\ TaskRank(tasks'[t]) - TaskRank(tasks[t]) \in {0, 1}

StagesInOrder ==
    \A t \in DOMAIN tasks :
        /\ TaskRank(tasks[t]) <= 5
        /\ TaskRank(tasks[t]) >= 2 => tasks[t].b = gen_range(tasks[t].a, block_size, sqrt_n, n)
        /\ TaskRank(tasks[t]) >= 3 => tasks[t].c = range_sieve(bool_t, tasks[t].b, base_primes)
        /\ TaskRank(tasks[t]) >= 4 => tasks[t].d = sieve_to_primes_part(bool_t, tasks[t].c)
        /\ TaskRank(tasks[t]) \in 1..4 => prime_list[tasks[t].a + 1] = Null
        /\ TaskRank(tasks[t]) = 5 => prime_list[tasks[t].d.slot] = make_shared(tasks[t].d.primes)

JoinedOnlyWhenCompleted ==
    /\ GlobalRank(pc) >= 1 => Len(tasks) = n \div block_size + 1
    /\ GlobalRank(pc) = 2 => \A t \in DOMAIN tasks : TaskRank(tasks[t]) = 5

C18_ForwardStateMachine ==
    /\ [][ForwardOnly]_vars
    /\ [](StagesInOrder /\ JoinedOnlyWhenCompleted)

C18_Witness ==
    /\ GlobalRank(pc) = 1
    /\ Len(tasks) = 3
    /\ TaskRank(tasks[1]) = 0
    /\ TaskRank(tasks[2]) = 5
    /\ TaskRank(tasks[3]) = 3

\* C19: under fair scheduling of the caller and of every task, every
\* launched task eventually is done and the call eventually returns, and
\* stays returned.
C19_Terminates ==
    /\ <>[](Returned /\ Len(tasks) = n \div block_size + 1)
    /\ \A t \in 1..(MaxTasks + 1) :
          [](t \in DOMAIN tasks => <>(t \in DOMAIN tasks /\ tasks[t].pc = "done"))

C19_Witness ==
    /\ Returned
    /\ n = 4
    /\ block_size = 2
    /\ Len(tasks) = 3
    /\ i = 3
    /\ \A t \in DOMAIN tasks : TaskRank(tasks[t]) = 5

\* C20: every index drawn is at most n / block_size, and the slot a task
\* writes is its index + 1, at least 1, at most n / block_size + 1 and below
\* the length n / block_size + 2 of prime_list.
C20_SlotIndexInBounds ==
    \A t \in DOMAIN tasks :
        /\ Cardinality(DOMAIN prime_list) = n \div block_size + 2
        /\ Drawn(t) => tasks[t].a \in 0..(n \div block_size)
        /\ HasRange(t) =>
              /\ tasks[t].b.slot = tasks[t].a + 1
              /\ tasks[t].b.slot >= 1
              /\ tasks[t].b.slot <= n \div block_size + 1
              /\ tasks[t].b.slot < Cardinality(DOMAIN prime_list)
              /\ tasks[t].b.slot \in DOMAIN prime_list
        /\ Past(t, {"output_body", "done"}) => tasks[t].d.slot = tasks[t].b.slot

C20_Witness ==
    \E t \in DOMAIN tasks :
        /\ tasks[t].pc = "output_body"
        /\ tasks[t].d.slot = n \div block_size + 1
        /\ tasks[t].d.slot = 3
        /\ Cardinality(DOMAIN prime_list) = 4
====
